---- MODULE Spec2Model ----
(***************************************************************************)
(* Model of the nexuslb serving core:                                      *)
(*   - GpuExecutorPlanFollower (src/nexus/backend/gpu_executor.cpp)        *)
(*   - ario::Connection        (src/ario/rdma.cpp)                         *)
(*   - ModelWorker             (src/nexus/dispatcher/model_worker.cpp)     *)
(* The follower, the connection and the dispatch ingress are independent   *)
(* state machines; each has its own specification (FollowerSpec, ConnSpec, *)
(* IngressSpec) over its variables.                                        *)
(***************************************************************************)
EXTENDS Integers, Sequences, FiniteSets, TLC

(* ---------------------------------------------------------------------- *)
(* Bounds of the model                                                     *)
(* ---------------------------------------------------------------------- *)
MaxPlans == 3
MaxTime == 2
MaxExecTime == 2
MaxModelIndex == 1
NumModels == 2
kRecvBacklog == 2
MaxMsgs == 2
MaxPosts == 2
MaxDispatch == 2
MaxSessionIndex == 1
MaxQueryId == 2
MaxClock == 2
MaxSessions == 2
MaxGlobalId == 3
MaxCompletions == 3
MaxWakeups == 2

(* ---------------------------------------------------------------------- *)
(* Follower state                                                          *)
(* ---------------------------------------------------------------------- *)
VARIABLES
  models_,        \* vector<shared_ptr<ModelExecutor>>: model id per slot, 0 = nullptr
  plans_,         \* vector<shared_ptr<BatchPlanContext>> kept as a heap
  next_timer_,    \* ario::Timer: [timeout, waiting]
  ready,          \* executor queue of timer callbacks to deliver (error codes)
  now,            \* Clock::now()
  mutex_,         \* "free" or "app" (an AddBatchPlan caller holds it)
  is_executing_,  \* std::atomic_flag
  pc,             \* position of the follower thread inside OnTimer
  plan,           \* OnTimer local: the popped plan
  start_time,     \* OnTimer local
  executing,      \* plan ids inside model->ExecuteBatchPlan
  accepted,       \* number of AddBatchPlan calls so far (plan ids 1..accepted)
  popLog,         \* history: ids of the plans popped by OnTimer, in order
  execLog,        \* history: <<plan_id, exec_time_ns>> of the plans passed to
                  \* ExecuteBatchPlan, in order
  late            \* history: ids of the plans that were pending, deadline
                  \* passed, when an ExecuteBatchPlan returned

fvars == <<models_, plans_, next_timer_, ready, now, mutex_, is_executing_, pc,
           plan, start_time, executing, accepted, popLog, execLog,
           late>>

(* ---------------------------------------------------------------------- *)
(* Connection state                                                        *)
(* ---------------------------------------------------------------------- *)
VARIABLES
  role,           \* "server" (memory_region_ set) or "client"
  hs,             \* position of the connection in its handshake / lifetime
  qp_state,       \* state of qp_: Reset, Init, RTR, RTS, Error
  is_connected_,  \* std::atomic<bool>
  dead,           \* the process has died (die, uncaught exception)
  poller,         \* cq_poller_thread_: "none", "running", "exited"
  poller_stop_,   \* std::atomic<bool>
  prefilled,      \* loop counter i of MarkConnected
  next_wr_id_,    \* std::atomic<uint64_t>
  wr_ctx_,        \* map wr_id -> WorkRequestContext ("owned" buffer or "moved")
  rq,             \* receive queue of the QP: wr_ids of the posted receives
  sq,             \* send queue of the QP: posted SEND / RDMA_READ requests
  cq,             \* completion queue: work completions not polled yet
  app_pc,         \* position of the application thread in AsyncSend/AsyncRead
  app_wr,         \* local wr of that call
  msgs_in,        \* messages the peer has sent so far
  posts,          \* AsyncSend / AsyncRead calls so far
  kind_of,        \* history: wr_id -> kind of the request it was assigned to
  early,          \* history: wr_ids posted while the QP had not reached RTS
  delivered,      \* history: <<wr_id, handler callback>> in call order
  wr_log,         \* history: the wr_ids handed out by next_wr_id_, in order
  called,         \* history: the handshake callbacks made on handler_
  events          \* history: the handshake steps taken, in order

cvars == <<role, hs, qp_state, is_connected_, dead, poller, poller_stop_,
           prefilled, next_wr_id_, wr_ctx_, rq, sq, cq, app_pc, app_wr, msgs_in,
           posts, kind_of, early, delivered, wr_log, called,
           events>>

(* ---------------------------------------------------------------------- *)
(* Dispatch ingress state (ModelWorker)                                    *)
(* ---------------------------------------------------------------------- *)
VARIABLES
  model_session_entrance_table_,  \* vector<RequestEntrance>: 1 = registered
                                  \* entrance, 0 = default-constructed slot
  tasks,               \* executor_: the AddModelSession tasks posted, not run
  global_id_issuer_,   \* GlobalIdIssuer shared by the workers: last id issued
  clock_ns,            \* Clock::now() as last read
  received,            \* control messages received so far
  sessions,            \* AddModelSession calls so far
  worker_dead,         \* the process has died (LOG(FATAL), uncaught exception)
  handled              \* history: one record per Dispatch handled, in order

wvars == <<model_session_entrance_table_, tasks, global_id_issuer_, clock_ns,
           received, sessions, worker_dead, handled>>

(* ---------------------------------------------------------------------- *)
(* Blocking CQ poller state (Connection::PollCompletionQueueBlocking)      *)
(* ---------------------------------------------------------------------- *)
VARIABLES
  bpc,             \* position of the poller thread in its loop
  comp_channel_,   \* completion events on the channel's fd, not read yet
  notify_armed,    \* a completion notification is requested on the CQ
  cq_depth,        \* completions on the CQ, not polled yet
  stop_requested,  \* poller_stop_ as this thread reads it
  arrived,         \* completions the NIC has placed on the CQ so far
  wakeups          \* poll() returns without an event so far

pvars == <<bpc, comp_channel_, notify_armed, cq_depth, stop_requested, arrived,
           wakeups>>

vars == <<fvars, cvars, wvars, pvars>>

\* an empty std::map
EmptyMap == [x \in {} |-> "owned"]

NoTimeout == 0 - 1

\* the process has died on a failed CHECK
Aborted == pc \in {"PlanOverlap", "CheckFailed"}
NoPlan == [plan_id |-> 0, model_index |-> 0, exec_time_ns |-> 0]

(* The model objects handed to AddModel / RemoveModel: id -> model_index.  *)
(* Models 1 and 2 share model_index 0, models 3 and 4 model_index 1, ...   *)
ModelIds == 1 .. NumModels
ModelIndexOf(m) == (m - 1) \div 2

(* ---------------------------------------------------------------------- *)
(* Heap of plans                                                           *)
(* ---------------------------------------------------------------------- *)
\* mutant: the comparison reversed, which makes plans_ a max-heap
OrderBatchPlanProtoByExecTimeAsc(lhs, rhs) ==
  lhs.exec_time_ns < rhs.exec_time_ns

OrderBatchPlanProtoByExecTimeDesc(lhs, rhs) ==
  lhs.exec_time_ns > rhs.exec_time_ns

Swap(h, i, j) == [h EXCEPT ![i] = h[j], ![j] = h[i]]

RECURSIVE SiftUp(_, _)
SiftUp(h, i) ==
  IF i = 1 THEN h
  ELSE LET p == i \div 2 IN
       IF OrderBatchPlanProtoByExecTimeDesc(h[p], h[i])
       THEN SiftUp(Swap(h, p, i), p)
       ELSE h

RECURSIVE SiftDown(_, _, _)
SiftDown(h, i, n) ==
  LET l == 2 * i
      r == 2 * i + 1
      c1 == IF l <= n /\ OrderBatchPlanProtoByExecTimeDesc(h[i], h[l]) THEN l ELSE i
      c2 == IF r <= n /\ OrderBatchPlanProtoByExecTimeDesc(h[c1], h[r]) THEN r ELSE c1
  IN IF c2 = i THEN h ELSE SiftDown(Swap(h, i, c2), c2, n)

\* plans_.push_back(plan); std::push_heap(...)
PushHeap(h, p) == SiftUp(Append(h, p), Len(h) + 1)

\* std::pop_heap(...): the top moves to the back, the rest is a heap again
PopHeap(h) == SiftDown(Swap(h, 1, Len(h)), 1, Len(h) - 1)

\* mutant: the popped plan is read but not removed from the vector
PopBack_Missing(h) == h

\* plans_.pop_back()
PopBack(h) == SubSeq(h, 1, Len(h) - 1)

\* the plans of a heap whose deadline has passed
LateIn(h) == {h[i].plan_id : i \in {k \in 1 .. Len(h) : h[k].exec_time_ns < now}}

(* ---------------------------------------------------------------------- *)
(* Timer (ario::Timer). The most recent SetTimeout wins: every callback of *)
(* an earlier wait that has not been delivered yet is delivered with       *)
(* kCancelled.                                                             *)
(* ---------------------------------------------------------------------- *)
CancelAll(q) == [i \in 1 .. Len(q) |-> "kCancelled"]

SetTimeoutAsyncWait(t) ==
  /\ next_timer_' = [timeout |-> t, waiting |-> TRUE]
  /\ ready' = IF next_timer_.waiting
              THEN Append(CancelAll(ready), "kCancelled")
              ELSE CancelAll(ready)

UpdateTimer(h) ==
  IF h = <<>>
  THEN UNCHANGED <<next_timer_, ready>>
  ELSE IF h[1].exec_time_ns # next_timer_.timeout
       THEN SetTimeoutAsyncWait(h[1].exec_time_ns)
       ELSE UNCHANGED <<next_timer_, ready>>

\* the armed deadline is reached: the callback is queued with kOk
TimerExpire ==
  /\ ~Aborted
  /\ next_timer_.waiting
  /\ now >= next_timer_.timeout
  /\ next_timer_' = [next_timer_ EXCEPT !.waiting = FALSE]
  /\ ready' = Append(ready, "kOk")
  /\ UNCHANGED <<models_, plans_, now, mutex_, is_executing_, pc, plan,
                 start_time, executing, accepted, popLog, execLog,
                 late>>
  /\ UNCHANGED <<cvars, wvars, pvars>>

Tick ==
  /\ now < MaxTime
  /\ now' = now + 1
  /\ UNCHANGED <<models_, plans_, next_timer_, ready, mutex_, is_executing_, pc,
                 plan, start_time, executing, accepted, popLog,
                 execLog,
                 late>>
  /\ UNCHANGED <<cvars, wvars, pvars>>

(* ---------------------------------------------------------------------- *)
(* AddModel / RemoveModel                                                  *)
(* ---------------------------------------------------------------------- *)
Resize(v, n) == [i \in 1 .. n |-> IF i <= Len(v) THEN v[i] ELSE 0]

\* slot of model_index k is element k + 1 of the sequence
AddModel(m) ==
  LET k == ModelIndexOf(m)
      grown == IF Len(models_) <= k THEN Resize(models_, k + 1) ELSE models_
  IN /\ ~Aborted
     /\ mutex_ = "free"
     /\ IF grown[k + 1] # 0
        THEN /\ pc' = "CheckFailed"      \* CHECK(!models_[model_index.t])
             /\ models_' = grown
        ELSE /\ models_' = [grown EXCEPT ![k + 1] = m]
             /\ pc' = pc
     /\ UNCHANGED <<plans_, next_timer_, ready, now, mutex_, is_executing_, plan,
                    start_time, executing, accepted, popLog, execLog,
                 late>>
     /\ UNCHANGED <<cvars, wvars, pvars>>

RemoveModel(m) ==
  LET k == ModelIndexOf(m) IN
  /\ ~Aborted
  /\ mutex_ = "free"
  /\ IF Len(models_) <= k \/ models_[k + 1] = 0
     THEN /\ pc' = "CheckFailed"         \* CHECK_GT / CHECK(... != nullptr)
          /\ models_' = models_
     ELSE /\ models_' = [models_ EXCEPT ![k + 1] = 0]
          /\ pc' = pc
  /\ UNCHANGED <<plans_, next_timer_, ready, now, mutex_, is_executing_, plan,
                 start_time, executing, accepted, popLog, execLog,
                 late>>
  /\ UNCHANGED <<cvars, wvars, pvars>>

(* ---------------------------------------------------------------------- *)
(* AddBatchPlan (any thread): lock, push, sift / UpdateTimer, unlock       *)
(* ---------------------------------------------------------------------- *)
AddBatchPlanPush(k, t) ==
  /\ ~Aborted
  /\ mutex_ = "free"
  /\ accepted < MaxPlans
  /\ accepted' = accepted + 1
  /\ plans_' = PushHeap(plans_, [plan_id |-> accepted + 1, model_index |-> k,
                                 exec_time_ns |-> t])
  /\ mutex_' = "app"
  /\ UNCHANGED <<models_, next_timer_, ready, now, is_executing_, pc, plan,
                 start_time, executing, popLog, execLog,
                 late>>
  /\ UNCHANGED <<cvars, wvars, pvars>>

AddBatchPlanUpdateTimer ==
  /\ ~Aborted
  /\ mutex_ = "app"
  /\ UpdateTimer(plans_)
  /\ mutex_' = "free"
  /\ UNCHANGED <<models_, plans_, now, is_executing_, pc, plan, start_time,
                 executing, accepted, popLog, execLog,
                 late>>
  /\ UNCHANGED <<cvars, wvars, pvars>>

(* ---------------------------------------------------------------------- *)
(* OnTimer, on the follower's event-loop thread                            *)
(* ---------------------------------------------------------------------- *)
\* mutant: the error code of the callback is not looked at
OnTimerEnter_IgnoreError ==
  /\ pc = "idle"
  /\ ready # <<>>
  /\ ready' = Tail(ready)
  /\ pc' = "pop"
  /\ start_time' = now
  /\ UNCHANGED <<models_, plans_, next_timer_, now, mutex_, is_executing_, plan,
                 executing, accepted, popLog, execLog,
                 late>>
  /\ UNCHANGED <<cvars, wvars, pvars>>

\* lines 100-105: take the next callback of the loop; return on error
OnTimerEnter ==
  /\ pc = "idle"
  /\ ready # <<>>
  /\ ready' = Tail(ready)
  /\ IF Head(ready) # "kOk"
     THEN UNCHANGED <<pc, start_time>>
     ELSE /\ pc' = "pop"
          /\ start_time' = now
  /\ UNCHANGED <<models_, plans_, next_timer_, now, mutex_, is_executing_, plan,
                 executing, accepted, popLog, execLog,
                 late>>
  /\ UNCHANGED <<cvars, wvars, pvars>>

\* lines 108-118
OnTimerPop ==
  /\ pc = "pop"
  /\ mutex_ = "free"
  /\ IF plans_ = <<>>
     THEN /\ pc' = "idle"                \* "Woke up without batch plan to run."
          /\ start_time' = 0
          /\ UNCHANGED <<plans_, plan, popLog>>
     ELSE LET h == PopHeap(plans_) IN
          /\ plan' = h[Len(h)]
          /\ plans_' = PopBack(h)
          /\ popLog' = Append(popLog, h[Len(h)].plan_id)
          /\ pc' = "lookup"
          /\ UNCHANGED start_time
  /\ UNCHANGED <<models_, next_timer_, ready, now, mutex_, is_executing_,
                 executing, accepted, execLog,
                 late>>
  /\ UNCHANGED <<cvars, wvars, pvars>>

\* mutant: ExecuteBatchPlan only starts the batch and returns at once
OnTimerExecute_Async ==
  /\ pc = "lookup"
  /\ mutex_ = "free"
  /\ IF Len(models_) <= plan.model_index \/ models_[plan.model_index + 1] = 0
     THEN /\ UpdateTimer(plans_)
          /\ pc' = "idle"
          /\ plan' = NoPlan
          /\ start_time' = 0
          /\ UNCHANGED <<is_executing_, executing, execLog>>
     ELSE /\ is_executing_' = TRUE
          /\ IF is_executing_
             THEN /\ pc' = "PlanOverlap"
                  /\ UNCHANGED <<executing, execLog>>
             ELSE /\ pc' = "finish"
                  /\ executing' = executing \cup {plan.plan_id}
                  /\ execLog' = Append(execLog, <<plan.plan_id, plan.exec_time_ns>>)
          /\ UNCHANGED <<next_timer_, ready, plan, start_time>>
  /\ UNCHANGED <<models_, plans_, now, mutex_, accepted, popLog,
                 late>>
  /\ UNCHANGED <<cvars, wvars, pvars>>

\* lines 122-145: look the model up; without it re-arm and return, else
\* test_and_set, CHECK, and call model->ExecuteBatchPlan(plan)
OnTimerExecute ==
  /\ pc = "lookup"
  /\ mutex_ = "free"
  /\ IF Len(models_) <= plan.model_index \/ models_[plan.model_index + 1] = 0
     THEN /\ UpdateTimer(plans_)         \* "Cannot find ModelIndex"
          /\ pc' = "idle"
          /\ plan' = NoPlan
          /\ start_time' = 0
          /\ UNCHANGED <<is_executing_, executing, execLog>>
     ELSE /\ is_executing_' = TRUE
          /\ IF is_executing_
             THEN /\ pc' = "PlanOverlap" \* CHECK(!is_executing)
                  /\ UNCHANGED <<executing, execLog>>
             ELSE /\ pc' = "execute"
                  /\ executing' = executing \cup {plan.plan_id}
                  /\ execLog' = Append(execLog, <<plan.plan_id, plan.exec_time_ns>>)
          /\ UNCHANGED <<next_timer_, ready, plan, start_time>>
  /\ UNCHANGED <<models_, plans_, now, mutex_, accepted, popLog,
                 late>>
  /\ UNCHANGED <<cvars, wvars, pvars>>

\* ExecuteBatchPlan returns; line 146
ExecuteReturn ==
  /\ pc = "execute"
  /\ executing' = executing \ {plan.plan_id}
  /\ late' = late \cup LateIn(plans_)
  /\ pc' = "finish"
  /\ UNCHANGED <<models_, plans_, next_timer_, ready, now, mutex_, is_executing_,
                 plan, start_time, accepted, execLog,
                 popLog>>
  /\ UNCHANGED <<cvars, wvars, pvars>>

\* mutant: is_executing_ is never cleared
OnTimerFinish_NoClear ==
  /\ pc = "finish"
  /\ UpdateTimer(plans_)
  /\ pc' = "idle"
  /\ plan' = NoPlan
  /\ start_time' = 0
  /\ UNCHANGED <<models_, plans_, now, mutex_, is_executing_, executing, accepted,
                 popLog, execLog,
                 late>>
  /\ UNCHANGED <<cvars, wvars, pvars>>

\* lines 165-166: UpdateTimer() without the mutex, is_executing_.clear()
OnTimerFinish ==
  /\ pc = "finish"
  /\ UpdateTimer(plans_)
  /\ is_executing_' = FALSE
  /\ pc' = "idle"
  /\ plan' = NoPlan
  /\ start_time' = 0
  /\ UNCHANGED <<models_, plans_, now, mutex_, executing, accepted, popLog,
                 execLog,
                 late>>
  /\ UNCHANGED <<cvars, wvars, pvars>>

\* the follower after its constructor; the connection is not used
FollowerInit ==
  /\ models_ = <<>>
  /\ plans_ = <<>>
  /\ next_timer_ = [timeout |-> NoTimeout, waiting |-> FALSE]
  /\ ready = <<>>
  /\ now = 0
  /\ mutex_ = "free"
  /\ is_executing_ = FALSE
  /\ pc = "idle"
  /\ plan = NoPlan
  /\ start_time = 0
  /\ executing = {}
  /\ accepted = 0
  /\ popLog = <<>>
  /\ execLog = <<>>
  /\ late = {}
  /\ role = "server"
  /\ hs = "new"
  /\ qp_state = "Reset"
  /\ is_connected_ = FALSE
  /\ dead = FALSE
  /\ poller = "none"
  /\ poller_stop_ = FALSE
  /\ prefilled = 0
  /\ next_wr_id_ = 0
  /\ wr_ctx_ = EmptyMap
  /\ rq = <<>>
  /\ sq = <<>>
  /\ cq = <<>>
  /\ app_pc = "idle"
  /\ app_wr = [wr_id |-> 0, kind |-> "none"]
  /\ msgs_in = 0
  /\ posts = 0
  /\ kind_of = EmptyMap
  /\ early = {}
  /\ delivered = <<>>
  /\ wr_log = <<>>
  /\ called = {}
  /\ events = <<>>
  /\ model_session_entrance_table_ = <<>>
  /\ tasks = <<>>
  /\ global_id_issuer_ = 0
  /\ clock_ns = 1
  /\ received = 0
  /\ sessions = 0
  /\ worker_dead = FALSE
  /\ handled = <<>>
  /\ bpc = "poll"
  /\ comp_channel_ = 0
  /\ notify_armed = TRUE
  /\ cq_depth = 0
  /\ stop_requested = FALSE
  /\ arrived = 0
  /\ wakeups = 0

FollowerNext ==
  \/ \E m \in ModelIds : AddModel(m)
  \/ \E m \in ModelIds : RemoveModel(m)
  \/ \E k \in 0 .. MaxModelIndex, t \in 0 .. MaxExecTime : AddBatchPlanPush(k, t)
  \/ AddBatchPlanUpdateTimer
  \/ TimerExpire
  \/ Tick
  \/ OnTimerEnter
  \/ OnTimerPop
  \/ OnTimerExecute
  \/ ExecuteReturn
  \/ OnTimerFinish

(* ====================================================================== *)
(* ario::Connection                                                        *)
(* ====================================================================== *)
\* mutant: the request is posted without its context being inserted
CtxEmplace_Skipped(tbl, id) == tbl

\* wr_ctx_.emplace(wr_id, buf): no effect when the key is already there
CtxEmplace(tbl, id) ==
  IF id \in DOMAIN tbl THEN tbl
  ELSE [x \in DOMAIN tbl \cup {id} |-> IF x = id THEN "owned" ELSE tbl[x]]

\* wr_ctx = std::move(iter->second): the entry stays, its buffer moved out
CtxTake(tbl, id) == [tbl EXCEPT ![id] = "moved"]

MapPut(f, k, v) == [x \in DOMAIN f \cup {k} |-> IF x = k THEN v ELSE f[x]]

\* the handler callbacks HandleWorkCompletion makes for an opcode, in order
\* mutant: case IBV_WC_SEND without its return, falling into IBV_WC_RDMA_READ
Callbacks_FallThrough(opcode) ==
  CASE opcode = "RECV" -> <<"OnRecv">>
    [] opcode = "SEND" -> <<"OnSent", "OnRdmaReadComplete">>
    [] opcode = "RDMA_READ" -> <<"OnRdmaReadComplete">>
    [] OTHER -> <<>>

Callbacks(opcode) ==
  CASE opcode = "RECV" -> <<"OnRecv">>
    [] opcode = "SEND" -> <<"OnSent">>
    [] opcode = "RDMA_READ" -> <<"OnRdmaReadComplete">>
    [] OTHER -> <<>>

\* the opcode of the work completion of a request
OpcodeOf(kind) ==
  CASE kind = "recv" -> "RECV"
    [] kind = "send" -> "SEND"
    [] kind = "read" -> "RDMA_READ"

\* mutant: the prefill loop stops one receive short
PrefillDone_OneShort(i) == i + 1 >= kRecvBacklog

\* for (size_t i = 0; i < kRecvBacklog; ++i)
PrefillDone(i) == i >= kRecvBacklog

\* mutant: a plain load and store in place of the atomic fetch_add, the
\* increment of a concurrent caller overwritten
FetchAdd_LostUpdate(v) == v

\* next_wr_id_.fetch_add(1): the value left in the counter; the caller's
\* wr_id is the value before
FetchAdd(v) == v + 1

\* mutant: the status of the completion is not looked at
CompletionFailure_Ignored(wc) == FALSE

\* lines 501-506: wc->status != IBV_WC_SUCCESS
CompletionFailure(wc) == wc.status # "success"

BeforeRTS == qp_state \in {"Reset", "Init", "RTR"}

Alive == ~dead /\ hs # "destroyed"



(* ---------------------------------------------------------------------- *)
(* Constructor and handshake (event-loop thread)                           *)
(* ---------------------------------------------------------------------- *)
\* lines 109-131: PD, CQ, QP, Init, RegisterMemory, SendConnInfo, RecvConnInfo;
\* ok = FALSE: one of the verbs fails and the constructor dies
Construct(ok) ==
  /\ Alive
  /\ hs = "new"
  /\ IF ok
     THEN /\ qp_state' = "Init"
          /\ hs' = "wait_conninfo"
          /\ events' = Append(events, "SendConnInfo")
          /\ dead' = dead
     ELSE /\ dead' = TRUE
          /\ UNCHANGED <<qp_state, hs, events>>
  /\ UNCHANGED <<called, role, is_connected_, poller, poller_stop_, prefilled,
                 next_wr_id_, wr_ctx_, rq, sq, cq, app_pc, app_wr, msgs_in, posts,
                 kind_of, wr_log, early, delivered>>
  /\ UNCHANGED <<fvars, wvars, pvars>>

\* lines 219-231: the AsyncRead callback of RecvConnInfo up to RTR
RecvConnInfoCallback(err, type, ok) ==
  /\ Alive
  /\ hs = "wait_conninfo"
  /\ IF err \/ type # "kConnInfo" \/ ~ok
     THEN /\ dead' = TRUE                \* die(...)
          /\ hs' = "failed"
          /\ UNCHANGED <<qp_state, events>>
     ELSE /\ qp_state' = "RTR"
          /\ hs' = "rtr"
          /\ events' = Append(events, "RecvConnInfo")
          /\ dead' = dead
  /\ UNCHANGED <<called, role, is_connected_, poller, poller_stop_, prefilled,
                 next_wr_id_, wr_ctx_, rq, sq, cq, app_pc, app_wr, msgs_in, posts,
                 kind_of, wr_log, early, delivered>>
  /\ UNCHANGED <<fvars, wvars, pvars>>

\* lines 232-241: TransitQueuePairToRTS, then the role's branch
TransitQueuePairToRTS(ok) ==
  /\ Alive
  /\ hs = "rtr"
  /\ IF ~ok
     THEN /\ dead' = TRUE                \* die_perror("TransitQueuePairToRTS")
          /\ hs' = "failed"
          /\ UNCHANGED qp_state
     ELSE /\ qp_state' = "RTS"
          /\ hs' = IF role = "server" THEN "mark" ELSE "wait_mr"
          /\ dead' = dead
  /\ UNCHANGED <<called, events, role, is_connected_, poller, poller_stop_, prefilled,
                 next_wr_id_, wr_ctx_, rq, sq, cq, app_pc, app_wr, msgs_in, posts,
                 kind_of, wr_log, early, delivered>>
  /\ UNCHANGED <<fvars, wvars, pvars>>

\* lines 267-281: the AsyncRead callback of RecvMemoryRegion (client); on an
\* error or an unexpected type it logs and returns, no handler is called;
\* otherwise it stores remote_mr_ and goes on to MarkConnected
RecvMemoryRegionCallback(err, type) ==
  /\ Alive
  /\ hs = "wait_mr"
  /\ hs' = IF err \/ type # "kMemoryRegion" THEN "stalled" ELSE "mark"
  /\ events' = IF err \/ type # "kMemoryRegion"
               THEN events ELSE Append(events, "RecvMemoryRegion")
  /\ UNCHANGED <<called, role, qp_state, is_connected_, dead, poller, poller_stop_,
                 prefilled, next_wr_id_, wr_ctx_, rq, sq, cq, app_pc, app_wr,
                 msgs_in, posts, kind_of, wr_log, early, delivered>>
  /\ UNCHANGED <<fvars, wvars, pvars>>

\* mutant: the server sends its MemoryRegion message before it tells the
\* handler
AfterMarkConnected_SendFirst(r) ==
  IF r = "server" THEN <<"SendMemoryRegion", "OnConnected">>
  ELSE <<"OnConnected">>

\* what follows MarkConnected(): lines 236-237 on the server, line 282 on
\* the client
AfterMarkConnected(r) ==
  IF r = "server" THEN <<"OnConnected", "SendMemoryRegion">>
  ELSE <<"OnConnected">>

\* mutant: the state of the QP is not queried
MarkConnectedBegin_NoQuery ==
  /\ Alive
  /\ hs = "mark"
  /\ poller' = "running"
  /\ prefilled' = 0
  /\ hs' = "prefill"
  /\ dead' = dead
  /\ UNCHANGED <<called, events, role, qp_state, is_connected_, poller_stop_, next_wr_id_,
                 wr_ctx_, rq, sq, cq, app_pc, app_wr, msgs_in, posts, kind_of, wr_log,
                 early, delivered>>
  /\ UNCHANGED <<fvars, wvars, pvars>>

\* lines 539-589: MarkConnected queries the QP and starts the poller thread
MarkConnectedBegin ==
  /\ Alive
  /\ hs = "mark"
  /\ IF qp_state # "RTS"
     THEN /\ dead' = TRUE                \* die("attr.qp_state != IBV_QPS_RTS")
          /\ UNCHANGED <<hs, poller, prefilled>>
     ELSE /\ poller' = "running"
          /\ prefilled' = 0
          /\ hs' = "prefill"
          /\ dead' = dead
  /\ UNCHANGED <<called, events, role, qp_state, is_connected_, poller_stop_, next_wr_id_,
                 wr_ctx_, rq, sq, cq, app_pc, app_wr, msgs_in, posts, kind_of, wr_log,
                 early, delivered>>
  /\ UNCHANGED <<fvars, wvars, pvars>>

\* lines 590-592 with PostReceive, lines 367-390
MarkConnectedPostReceive ==
  /\ Alive
  /\ hs = "prefill"
  /\ ~PrefillDone(prefilled)
  /\ prefilled' = prefilled + 1
  /\ next_wr_id_' = FetchAdd(next_wr_id_)
  /\ wr_ctx_' = CtxEmplace(wr_ctx_, next_wr_id_)
  /\ kind_of' = MapPut(kind_of, next_wr_id_, "recv")
  /\ wr_log' = Append(wr_log, next_wr_id_)
  /\ rq' = Append(rq, next_wr_id_)
  /\ early' = IF BeforeRTS THEN early \cup {next_wr_id_} ELSE early
  /\ UNCHANGED <<called, events, role, hs, qp_state, is_connected_, dead, poller, poller_stop_,
                 sq, cq, app_pc, app_wr, msgs_in, posts, delivered>>
  /\ UNCHANGED <<fvars, wvars, pvars>>

\* line 594, then OnConnected (and SendMemoryRegion on the server)
MarkConnectedEnd ==
  /\ Alive
  /\ hs = "prefill"
  /\ PrefillDone(prefilled)
  /\ is_connected_' = TRUE
  /\ called' = called \cup {"OnConnected"}
  /\ events' = events \o AfterMarkConnected(role)
  /\ hs' = "done"
  /\ UNCHANGED <<role, qp_state, dead, poller, poller_stop_, prefilled,
                 next_wr_id_, wr_ctx_, rq, sq, cq, app_pc, app_wr, msgs_in, posts,
                 kind_of, wr_log, early, delivered>>
  /\ UNCHANGED <<fvars, wvars, pvars>>

(* ---------------------------------------------------------------------- *)
(* The NIC and the peer                                                    *)
(* ---------------------------------------------------------------------- *)
\* the QP leaves RTS on an error
QpFault ==
  /\ Alive
  /\ qp_state = "RTS"
  /\ qp_state' = "Error"
  /\ UNCHANGED <<called, events, role, hs, is_connected_, dead, poller, poller_stop_, prefilled,
                 next_wr_id_, wr_ctx_, rq, sq, cq, app_pc, app_wr, msgs_in, posts,
                 kind_of, wr_log, early, delivered>>
  /\ UNCHANGED <<fvars, wvars, pvars>>

\* a message of the peer consumes the oldest posted receive
RecvArrive(status) ==
  /\ Alive
  /\ rq # <<>>
  /\ msgs_in < MaxMsgs
  /\ status = "success" => qp_state = "RTS"
  /\ msgs_in' = msgs_in + 1
  /\ rq' = Tail(rq)
  /\ cq' = Append(cq, [wr_id |-> Head(rq), opcode |-> "RECV", status |-> status])
  /\ UNCHANGED <<called, events, role, hs, qp_state, is_connected_, dead, poller, poller_stop_,
                 prefilled, next_wr_id_, wr_ctx_, sq, app_pc, app_wr, posts,
                 kind_of, wr_log, early, delivered>>
  /\ UNCHANGED <<fvars, wvars, pvars>>

\* the oldest posted SEND / RDMA_READ completes
SendComplete(status) ==
  /\ Alive
  /\ sq # <<>>
  /\ status = "success" => qp_state = "RTS"
  /\ sq' = Tail(sq)
  /\ cq' = Append(cq, [wr_id |-> Head(sq).wr_id,
                       opcode |-> OpcodeOf(Head(sq).kind), status |-> status])
  /\ UNCHANGED <<called, events, role, hs, qp_state, is_connected_, dead, poller, poller_stop_,
                 prefilled, next_wr_id_, wr_ctx_, rq, app_pc, app_wr, msgs_in,
                 posts, kind_of, wr_log, early, delivered>>
  /\ UNCHANGED <<fvars, wvars, pvars>>

(* ---------------------------------------------------------------------- *)
(* The CQ poller thread                                                    *)
(* ---------------------------------------------------------------------- *)
\* mutant: the completed receive goes to OnRecv without a replacement
\* receive being posted
HandleWorkCompletion_NoRepost ==
  /\ Alive
  /\ poller = "running"
  /\ ~poller_stop_
  /\ cq # <<>>
  /\ cq' = Tail(cq)
  /\ LET wc == Head(cq) IN
     IF CompletionFailure(wc) \/ wc.wr_id \notin DOMAIN wr_ctx_
     THEN /\ dead' = TRUE                \* die(...)
          /\ UNCHANGED <<next_wr_id_, wr_ctx_, rq, kind_of, wr_log, early, delivered>>
     ELSE /\ dead' = dead
          /\ delivered' = delivered \o
               [i \in 1 .. Len(Callbacks(wc.opcode)) |->
                  <<wc.wr_id, Callbacks(wc.opcode)[i]>>]
          /\ IF wc.opcode = "RECV"
             THEN /\ wr_ctx_' = CtxTake(wr_ctx_, wc.wr_id)
                  /\ UNCHANGED <<next_wr_id_, rq, kind_of, wr_log, early>>
             ELSE /\ wr_ctx_' = CtxTake(wr_ctx_, wc.wr_id)
                  /\ UNCHANGED <<next_wr_id_, rq, kind_of, wr_log, early>>
  /\ UNCHANGED <<called, events, role, hs, qp_state, is_connected_, poller, poller_stop_,
                 prefilled, sq, app_pc, app_wr, msgs_in, posts>>
  /\ UNCHANGED <<fvars, wvars, pvars>>

\* ibv_poll_cq returns a completion; lines 500-537
HandleWorkCompletion ==
  /\ Alive
  /\ poller = "running"
  /\ ~poller_stop_
  /\ cq # <<>>
  /\ cq' = Tail(cq)
  /\ LET wc == Head(cq) IN
     IF CompletionFailure(wc) \/ wc.wr_id \notin DOMAIN wr_ctx_
     THEN /\ dead' = TRUE                \* die(...)
          /\ UNCHANGED <<next_wr_id_, wr_ctx_, rq, kind_of, wr_log, early, delivered>>
     ELSE /\ dead' = dead
          /\ delivered' = delivered \o
               [i \in 1 .. Len(Callbacks(wc.opcode)) |->
                  <<wc.wr_id, Callbacks(wc.opcode)[i]>>]
          /\ IF wc.opcode = "RECV"
             THEN \* PostReceive() before handler_->OnRecv
                  /\ next_wr_id_' = FetchAdd(next_wr_id_)
                  /\ wr_ctx_' = CtxEmplace(CtxTake(wr_ctx_, wc.wr_id), next_wr_id_)
                  /\ kind_of' = MapPut(kind_of, next_wr_id_, "recv")
                  /\ wr_log' = Append(wr_log, next_wr_id_)
                  /\ rq' = Append(rq, next_wr_id_)
                  /\ early' = IF BeforeRTS THEN early \cup {next_wr_id_} ELSE early
             ELSE /\ wr_ctx_' = CtxTake(wr_ctx_, wc.wr_id)
                  /\ UNCHANGED <<next_wr_id_, rq, kind_of, wr_log, early>>
  /\ UNCHANGED <<called, events, role, hs, qp_state, is_connected_, poller, poller_stop_,
                 prefilled, sq, app_pc, app_wr, msgs_in, posts>>
  /\ UNCHANGED <<fvars, wvars, pvars>>

\* while (!poller_stop_) ends
PollerExit ==
  /\ ~dead
  /\ poller = "running"
  /\ poller_stop_
  /\ poller' = "exited"
  /\ UNCHANGED <<called, events, role, hs, qp_state, is_connected_, dead, poller_stop_, prefilled,
                 next_wr_id_, wr_ctx_, rq, sq, cq, app_pc, app_wr, msgs_in, posts,
                 kind_of, wr_log, early, delivered>>
  /\ UNCHANGED <<fvars, wvars, pvars>>

(* ---------------------------------------------------------------------- *)
(* The application thread                                                  *)
(* ---------------------------------------------------------------------- *)
CanCall == Alive /\ hs \notin {"new", "joining"} /\ app_pc = "idle"

\* mutant: AsyncSend without its test of is_connected_
AsyncSendBegin_NoCheck ==
  /\ CanCall
  /\ posts < MaxPosts
  /\ posts' = posts + 1
  /\ next_wr_id_' = FetchAdd(next_wr_id_)
  /\ wr_ctx_' = CtxEmplace(wr_ctx_, next_wr_id_)
  /\ kind_of' = MapPut(kind_of, next_wr_id_, "send")
  /\ wr_log' = Append(wr_log, next_wr_id_)
  /\ app_wr' = [wr_id |-> next_wr_id_, kind |-> "send"]
  /\ app_pc' = "post"
  /\ dead' = dead
  /\ UNCHANGED <<called, events, role, hs, qp_state, is_connected_, poller, poller_stop_,
                 prefilled, rq, sq, cq, msgs_in, early, delivered>>
  /\ UNCHANGED <<fvars, wvars, pvars>>

\* lines 392-413: AsyncSend up to the insertion into wr_ctx_
AsyncSendBegin ==
  /\ CanCall
  /\ posts < MaxPosts
  /\ posts' = posts + 1
  /\ IF ~is_connected_
     THEN /\ dead' = TRUE                \* die("Send: not connected.")
          /\ UNCHANGED <<next_wr_id_, wr_ctx_, kind_of, wr_log, app_pc, app_wr>>
     ELSE /\ next_wr_id_' = FetchAdd(next_wr_id_)
          /\ wr_ctx_' = CtxEmplace(wr_ctx_, next_wr_id_)
          /\ kind_of' = MapPut(kind_of, next_wr_id_, "send")
          /\ wr_log' = Append(wr_log, next_wr_id_)
          /\ app_wr' = [wr_id |-> next_wr_id_, kind |-> "send"]
          /\ app_pc' = "post"
          /\ dead' = dead
  /\ UNCHANGED <<called, events, role, hs, qp_state, is_connected_, poller, poller_stop_,
                 prefilled, rq, sq, cq, msgs_in, early, delivered>>
  /\ UNCHANGED <<fvars, wvars, pvars>>

\* lines 421-446: AsyncRead up to the insertion into wr_ctx_
AsyncReadBegin ==
  /\ CanCall
  /\ posts < MaxPosts
  /\ posts' = posts + 1
  /\ next_wr_id_' = FetchAdd(next_wr_id_)
  /\ wr_ctx_' = CtxEmplace(wr_ctx_, next_wr_id_)
  /\ kind_of' = MapPut(kind_of, next_wr_id_, "read")
  /\ wr_log' = Append(wr_log, next_wr_id_)
  /\ app_wr' = [wr_id |-> next_wr_id_, kind |-> "read"]
  /\ app_pc' = "post"
  /\ UNCHANGED <<called, events, role, hs, qp_state, is_connected_, dead, poller, poller_stop_,
                 prefilled, rq, sq, cq, msgs_in, early, delivered>>
  /\ UNCHANGED <<fvars, wvars, pvars>>

\* lines 415-416 / 448-449: ibv_post_send; taken = FALSE: it returns an
\* error and the caller dies. A QP in RTS accepts the request; on a QP in
\* another state the provider either returns an error or queues it.
PostSend(taken) ==
  /\ Alive
  /\ app_pc = "post"
  /\ qp_state = "RTS" => taken
  /\ early' = IF BeforeRTS /\ taken THEN early \cup {app_wr.wr_id} ELSE early
  /\ app_pc' = "idle"
  /\ IF taken
     THEN /\ sq' = Append(sq, app_wr)
          /\ dead' = dead
     ELSE /\ dead' = TRUE
          /\ sq' = sq
  /\ UNCHANGED <<called, events, role, hs, qp_state, is_connected_, poller, poller_stop_,
                 prefilled, next_wr_id_, wr_ctx_, rq, cq, app_wr, msgs_in, posts,
                 kind_of, wr_log, delivered>>
  /\ UNCHANGED <<fvars, wvars, pvars>>

\* lines 133-134: ~Connection sets poller_stop_ and joins
Destroy ==
  /\ CanCall
  /\ hs \in {"wait_conninfo", "wait_mr", "stalled", "done"}
  /\ poller_stop_' = TRUE
  /\ hs' = "joining"
  /\ UNCHANGED <<called, events, role, qp_state, is_connected_, dead, poller, prefilled,
                 next_wr_id_, wr_ctx_, rq, sq, cq, app_pc, app_wr, msgs_in, posts,
                 kind_of, wr_log, early, delivered>>
  /\ UNCHANGED <<fvars, wvars, pvars>>

\* line 135: join() returns once the poller has left its loop; joining a
\* thread that was never started throws, which ends the process
Join ==
  /\ ~dead
  /\ hs = "joining"
  /\ poller # "running"
  /\ IF poller = "none"
     THEN /\ dead' = TRUE
          /\ hs' = hs
     ELSE /\ hs' = "destroyed"
          /\ dead' = dead
  /\ UNCHANGED <<called, events, role, qp_state, is_connected_, poller, poller_stop_, prefilled,
                 next_wr_id_, wr_ctx_, rq, sq, cq, app_pc, app_wr, msgs_in, posts,
                 kind_of, wr_log, early, delivered>>
  /\ UNCHANGED <<fvars, wvars, pvars>>

Statuses == {"success", "failure"}
MsgTypes == {"kConnInfo", "kMemoryRegion"}

ConnNext ==
  \/ \E ok \in BOOLEAN : Construct(ok)
  \/ \E err \in BOOLEAN, type \in MsgTypes, ok \in BOOLEAN :
       RecvConnInfoCallback(err, type, ok)
  \/ \E ok \in BOOLEAN : TransitQueuePairToRTS(ok)
  \/ \E err \in BOOLEAN, type \in MsgTypes : RecvMemoryRegionCallback(err, type)
  \/ MarkConnectedBegin
  \/ MarkConnectedPostReceive
  \/ MarkConnectedEnd
  \/ QpFault
  \/ \E st \in Statuses : RecvArrive(st)
  \/ \E st \in Statuses : SendComplete(st)
  \/ HandleWorkCompletion
  \/ PollerExit
  \/ AsyncSendBegin
  \/ AsyncReadBegin
  \/ \E taken \in BOOLEAN : PostSend(taken)
  \/ Destroy
  \/ Join

\* a connection object before its constructor runs; the follower is not used
ConnInit ==
  /\ role \in {"server", "client"}
  /\ hs = "new"
  /\ qp_state = "Reset"
  /\ is_connected_ = FALSE
  /\ dead = FALSE
  /\ poller = "none"
  /\ poller_stop_ = FALSE
  /\ prefilled = 0
  /\ next_wr_id_ = 0
  /\ wr_ctx_ = EmptyMap
  /\ rq = <<>>
  /\ sq = <<>>
  /\ cq = <<>>
  /\ app_pc = "idle"
  /\ app_wr = [wr_id |-> 0, kind |-> "none"]
  /\ msgs_in = 0
  /\ posts = 0
  /\ kind_of = EmptyMap
  /\ early = {}
  /\ delivered = <<>>
  /\ wr_log = <<>>
  /\ called = {}
  /\ events = <<>>
  /\ model_session_entrance_table_ = <<>>
  /\ tasks = <<>>
  /\ global_id_issuer_ = 0
  /\ clock_ns = 1
  /\ received = 0
  /\ sessions = 0
  /\ worker_dead = FALSE
  /\ handled = <<>>
  /\ bpc = "poll"
  /\ comp_channel_ = 0
  /\ notify_armed = TRUE
  /\ cq_depth = 0
  /\ stop_requested = FALSE
  /\ arrived = 0
  /\ wakeups = 0
  /\ models_ = <<>>
  /\ plans_ = <<>>
  /\ next_timer_ = [timeout |-> NoTimeout, waiting |-> FALSE]
  /\ ready = <<>>
  /\ now = 0
  /\ mutex_ = "free"
  /\ is_executing_ = FALSE
  /\ pc = "idle"
  /\ plan = NoPlan
  /\ start_time = 0
  /\ executing = {}
  /\ accepted = 0
  /\ popLog = <<>>
  /\ execLog = <<>>
  /\ late = {}

ConnSpec == ConnInit /\ [][ConnNext]_vars

FollowerSpec == FollowerInit /\ [][FollowerNext]_vars

(* ====================================================================== *)
(* ModelWorker: the dispatch ingress                                       *)
(* ====================================================================== *)
CtrlStatuses == {"CTRL_OK", "CTRL_NOT_OK"}

SessionIndexes == 0 .. MaxSessionIndex
QueryIds == 1 .. MaxQueryId
Times == 1 .. MaxClock

\* a DispatchReply that was not sent
NoReply == [status |-> "none", model_index |-> 0, query_list |-> <<>>]

\* what a freed or never written QueryClock reads as
GarbageClock == [dispatcher_recv_ns |-> 0, dispatcher_sched_ns |-> 0]

\* mutant: the issuer hands out the id it handed out before
GlobalIdIssuerNext_Stuck(last) == last

\* global_id_issuer_.Next(): the next id, one above the last one issued
GlobalIdIssuerNext(last) == last + 1

\* what EnqueueQuery(std::move(request)) may do for the caller:
\*   status     the CtrlStatus returned
\*   consumed   the callee has moved from the request
\*   clock_live the QueryClock that `clock' points to still exists after it
\*   crash      the call does not return (default-constructed entrance)
EnqueueOutcomes ==
  [status : CtrlStatuses, consumed : BOOLEAN, clock_live : BOOLEAN,
   crash : BOOLEAN]

\* model_session_entrance_table_.at(model_index) does not throw
InTable(tbl, model_index) == model_index < Len(tbl)

\* a session is registered for model_index
Registered(tbl, model_index) ==
  InTable(tbl, model_index) /\ tbl[model_index + 1] = 1

\* the request as HandleDispatch reads it after EnqueueQuery has returned:
\* a moved-from protobuf message holds the default values
RequestAfter(request, out) ==
  IF out.consumed THEN [model_index |-> 0, query_id |-> 0] ELSE request

\* *clock after EnqueueQuery has returned
ClockAfter(clock, out) ==
  IF out.consumed /\ ~out.clock_live THEN GarbageClock ELSE clock

\* lines 159-165: the reply as HandleDispatch fills it in
FillReply(status, request, clock) ==
  IF status # "CTRL_OK"
  THEN [status |-> status, model_index |-> request.model_index,
        query_list |-> <<[query_id |-> request.query_id, clock |-> clock]>>]
  ELSE [status |-> status, model_index |-> 0, query_list |-> <<>>]

\* mutant: the reply is sent whatever its status
ShouldSend_Always(reply) == TRUE

\* line 55: reply->status() != CtrlStatus::CTRL_OK
ShouldSend(reply) == reply.status # "CTRL_OK"

\* lines 126-128: AddModelSession posts its task to the executor
AddModelSession(k) ==
  /\ ~worker_dead
  /\ sessions < MaxSessions
  /\ sessions' = sessions + 1
  /\ tasks' = Append(tasks, k)
  /\ UNCHANGED <<model_session_entrance_table_, global_id_issuer_, clock_ns,
                 received, worker_dead, handled>>
  /\ UNCHANGED <<fvars, cvars, pvars>>

\* lines 129-132: the task runs on the event-loop thread
AddModelSessionTask ==
  /\ ~worker_dead
  /\ tasks # <<>>
  /\ tasks' = Tail(tasks)
  /\ LET k == Head(tasks)
         grown == IF Len(model_session_entrance_table_) <= k
                  THEN Resize(model_session_entrance_table_, k + 1)
                  ELSE model_session_entrance_table_
     IN model_session_entrance_table_' = [grown EXCEPT ![k + 1] = 1]
  /\ UNCHANGED <<global_id_issuer_, clock_ns, received, sessions, worker_dead,
                 handled>>
  /\ UNCHANGED <<fvars, cvars, pvars>>

\* another ModelWorker takes an id from the shared issuer
OtherWorkerNext ==
  /\ ~worker_dead
  /\ global_id_issuer_ < MaxGlobalId
  /\ global_id_issuer_' = GlobalIdIssuerNext(global_id_issuer_)
  /\ UNCHANGED <<model_session_entrance_table_, tasks, clock_ns, received,
                 sessions, worker_dead, handled>>
  /\ UNCHANGED <<fvars, cvars, pvars>>

\* lines 35-45: OnRecv of a buffer that does not parse
OnRecvParseFailed(dispatcher_recv_ns) ==
  /\ ~worker_dead
  /\ received < MaxDispatch
  /\ dispatcher_recv_ns >= clock_ns
  /\ received' = received + 1
  /\ clock_ns' = dispatcher_recv_ns
  /\ UNCHANGED <<model_session_entrance_table_, tasks, global_id_issuer_,
                 sessions, worker_dead, handled>>
  /\ UNCHANGED <<fvars, cvars, pvars>>

\* lines 60-61: OnRecv of a control message that is not a Dispatch
OnRecvUnhandled(dispatcher_recv_ns) ==
  /\ ~worker_dead
  /\ received < MaxDispatch
  /\ dispatcher_recv_ns >= clock_ns
  /\ received' = received + 1
  /\ clock_ns' = dispatcher_recv_ns
  /\ worker_dead' = TRUE                 \* LOG(FATAL)
  /\ UNCHANGED <<model_session_entrance_table_, tasks, global_id_issuer_,
                 sessions, handled>>
  /\ UNCHANGED <<fvars, cvars, pvars>>

\* lines 47-59 with HandleDispatch, lines 136-166
OnRecvDispatch(request, dispatcher_recv_ns, dispatcher_sched_ns, out) ==
  /\ ~worker_dead
  /\ received < MaxDispatch
  /\ dispatcher_recv_ns >= clock_ns
  /\ dispatcher_sched_ns >= dispatcher_recv_ns
  /\ received' = received + 1
  /\ clock_ns' = dispatcher_sched_ns
  /\ global_id_issuer_' = GlobalIdIssuerNext(global_id_issuer_)
  /\ LET tbl == model_session_entrance_table_
         clock == [dispatcher_recv_ns |-> dispatcher_recv_ns,
                   dispatcher_sched_ns |-> dispatcher_sched_ns]
         global_id == GlobalIdIssuerNext(global_id_issuer_)
         \* at() throws std::out_of_range; a default-constructed entrance
         \* may not return
         returns == InTable(tbl, request.model_index) /\ ~out.crash
         reply == FillReply(out.status, RequestAfter(request, out),
                            ClockAfter(clock, out))
         entry == [query_id |-> request.query_id,
                   model_index |-> request.model_index,
                   global_id |-> global_id,
                   clock |-> clock,
                   known |-> Registered(tbl, request.model_index),
                   status |-> IF returns THEN out.status ELSE "none",
                   reply |-> IF returns /\ ShouldSend(reply)
                             THEN reply ELSE NoReply]
     IN /\ Registered(tbl, request.model_index) => ~out.crash
        /\ out.crash => (out.status = "CTRL_OK" /\ ~out.consumed /\ out.clock_live)
        /\ ~InTable(tbl, request.model_index) =>
             (out.status = "CTRL_OK" /\ ~out.consumed /\ out.clock_live /\ ~out.crash)
        /\ ~out.consumed => out.clock_live
        /\ handled' = Append(handled, entry)
        /\ worker_dead' = ~returns
  /\ UNCHANGED <<model_session_entrance_table_, tasks, sessions>>
  /\ UNCHANGED <<fvars, cvars, pvars>>

IngressNext ==
  \/ \E k \in SessionIndexes : AddModelSession(k)
  \/ AddModelSessionTask
  \/ OtherWorkerNext
  \/ \E t \in Times : OnRecvParseFailed(t)
  \/ \E t \in Times : OnRecvUnhandled(t)
  \/ \E request \in [model_index : SessionIndexes, query_id : QueryIds],
        t1 \in Times, t2 \in Times, out \in EnqueueOutcomes :
       OnRecvDispatch(request, t1, t2, out)

\* a ModelWorker after Start(); the follower and the connection are not used
IngressInit ==
  /\ model_session_entrance_table_ = <<>>
  /\ tasks = <<>>
  /\ global_id_issuer_ = 0
  /\ clock_ns = 1
  /\ received = 0
  /\ sessions = 0
  /\ worker_dead = FALSE
  /\ handled = <<>>
  /\ bpc = "poll"
  /\ comp_channel_ = 0
  /\ notify_armed = TRUE
  /\ cq_depth = 0
  /\ stop_requested = FALSE
  /\ arrived = 0
  /\ wakeups = 0
  /\ role = "server"
  /\ hs = "new"
  /\ qp_state = "Reset"
  /\ is_connected_ = FALSE
  /\ dead = FALSE
  /\ poller = "none"
  /\ poller_stop_ = FALSE
  /\ prefilled = 0
  /\ next_wr_id_ = 0
  /\ wr_ctx_ = EmptyMap
  /\ rq = <<>>
  /\ sq = <<>>
  /\ cq = <<>>
  /\ app_pc = "idle"
  /\ app_wr = [wr_id |-> 0, kind |-> "none"]
  /\ msgs_in = 0
  /\ posts = 0
  /\ kind_of = EmptyMap
  /\ early = {}
  /\ delivered = <<>>
  /\ wr_log = <<>>
  /\ called = {}
  /\ events = <<>>
  /\ models_ = <<>>
  /\ plans_ = <<>>
  /\ next_timer_ = [timeout |-> NoTimeout, waiting |-> FALSE]
  /\ ready = <<>>
  /\ now = 0
  /\ mutex_ = "free"
  /\ is_executing_ = FALSE
  /\ pc = "idle"
  /\ plan = NoPlan
  /\ start_time = 0
  /\ executing = {}
  /\ accepted = 0
  /\ popLog = <<>>
  /\ execLog = <<>>
  /\ late = {}

IngressSpec == IngressInit /\ [][IngressNext]_vars

(* ====================================================================== *)
(* Connection::PollCompletionQueueBlocking, statement by statement         *)
(* ====================================================================== *)
\* the NIC places a completion on the CQ; when a notification is requested
\* it puts one event on the completion channel and the request is used up
CompletionArrives ==
  /\ arrived < MaxCompletions
  /\ arrived' = arrived + 1
  /\ cq_depth' = cq_depth + 1
  /\ IF notify_armed
     THEN /\ comp_channel_' = comp_channel_ + 1
          /\ notify_armed' = FALSE
     ELSE UNCHANGED <<comp_channel_, notify_armed>>
  /\ UNCHANGED <<bpc, stop_requested, wakeups>>
  /\ UNCHANGED <<fvars, cvars, wvars>>

\* line 134: the destructor sets poller_stop_
RequestStop ==
  /\ ~stop_requested
  /\ stop_requested' = TRUE
  /\ UNCHANGED <<bpc, comp_channel_, notify_armed, cq_depth, arrived, wakeups>>
  /\ UNCHANGED <<fvars, cvars, wvars>>

PollResults == {"ready", "timeout", "error"}

\* mutant: poll() without a timeout, it returns only on an event or an error
PollReturns_NoTimeout(ret) ==
  /\ bpc = "poll"
  /\ CASE ret = "ready" ->
            /\ comp_channel_ > 0 \/ wakeups < MaxWakeups
            /\ wakeups' = IF comp_channel_ > 0 THEN wakeups ELSE wakeups + 1
            /\ bpc' = IF stop_requested THEN "exited" ELSE "get_cq_event"
       [] ret = "timeout" ->
            /\ FALSE
            /\ UNCHANGED <<bpc, wakeups>>
       [] ret = "error" ->
            /\ bpc' = "failed"           \* die("... pool failed")
            /\ UNCHANGED wakeups
  /\ UNCHANGED <<comp_channel_, notify_armed, cq_depth, stop_requested, arrived>>
  /\ UNCHANGED <<fvars, cvars, wvars>>

\* lines 461-468: poll() with its 1 ms timeout, then the tests of ret and of
\* poller_stop_. A timeout without poller_stop_ polls again.
PollReturns(ret) ==
  /\ bpc = "poll"
  /\ CASE ret = "ready" ->
            /\ comp_channel_ > 0 \/ wakeups < MaxWakeups
            /\ wakeups' = IF comp_channel_ > 0 THEN wakeups ELSE wakeups + 1
            /\ bpc' = IF stop_requested THEN "exited" ELSE "get_cq_event"
       [] ret = "timeout" ->
            /\ comp_channel_ = 0
            /\ stop_requested
            /\ bpc' = "exited"
            /\ UNCHANGED wakeups
       [] ret = "error" ->
            /\ bpc' = "failed"           \* die("... pool failed")
            /\ UNCHANGED wakeups
  /\ UNCHANGED <<comp_channel_, notify_armed, cq_depth, stop_requested, arrived>>
  /\ UNCHANGED <<fvars, cvars, wvars>>

\* lines 470-478: ibv_get_cq_event and ibv_ack_cq_events; on a failure the
\* loop continues
GetCqEvent(ok) ==
  /\ bpc = "get_cq_event"
  /\ ok => comp_channel_ > 0
  /\ IF ok
     THEN /\ comp_channel_' = comp_channel_ - 1
          /\ bpc' = "req_notify"
     ELSE /\ bpc' = "poll"
          /\ UNCHANGED comp_channel_
  /\ UNCHANGED <<notify_armed, cq_depth, stop_requested, arrived, wakeups>>
  /\ UNCHANGED <<fvars, cvars, wvars>>

\* lines 479-483: ibv_req_notify_cq; on a failure the loop continues
ReqNotifyCq(ok) ==
  /\ bpc = "req_notify"
  /\ IF ok
     THEN /\ notify_armed' = TRUE
          /\ bpc' = "drain"
     ELSE /\ bpc' = "poll"
          /\ UNCHANGED notify_armed
  /\ UNCHANGED <<comp_channel_, cq_depth, stop_requested, arrived, wakeups>>
  /\ UNCHANGED <<fvars, cvars, wvars>>

\* lines 484-486: while (!poller_stop_ && ibv_poll_cq(cq, 1, &wc))
\*                  HandleWorkCompletion(&wc);
PollCq ==
  /\ bpc = "drain"
  /\ IF stop_requested \/ cq_depth = 0
     THEN /\ bpc' = "poll"
          /\ UNCHANGED cq_depth
     ELSE /\ cq_depth' = cq_depth - 1
          /\ UNCHANGED bpc
  /\ UNCHANGED <<comp_channel_, notify_armed, stop_requested, arrived, wakeups>>
  /\ UNCHANGED <<fvars, cvars, wvars>>

\* line 135: cq_poller_thread_.join() returns once the thread function has
\* returned
JoinThread ==
  /\ stop_requested
  /\ bpc = "exited"
  /\ bpc' = "joined"
  /\ UNCHANGED <<comp_channel_, notify_armed, cq_depth, stop_requested, arrived,
                 wakeups>>
  /\ UNCHANGED <<fvars, cvars, wvars>>

BlockingPollerNext ==
  \/ CompletionArrives
  \/ RequestStop
  \/ JoinThread
  \/ \E ret \in PollResults : PollReturns(ret)
  \/ \E ok \in BOOLEAN : GetCqEvent(ok)
  \/ \E ok \in BOOLEAN : ReqNotifyCq(ok)
  \/ PollCq

\* the poller thread as MarkConnected starts it, lines 581-585: the
\* notification requested, the CQ empty; the other machines are not used
BlockingPollerInit ==
  /\ model_session_entrance_table_ = <<>>
  /\ tasks = <<>>
  /\ global_id_issuer_ = 0
  /\ clock_ns = 1
  /\ received = 0
  /\ sessions = 0
  /\ worker_dead = FALSE
  /\ handled = <<>>
  /\ bpc = "poll"
  /\ comp_channel_ = 0
  /\ notify_armed = TRUE
  /\ cq_depth = 0
  /\ stop_requested = FALSE
  /\ arrived = 0
  /\ wakeups = 0
  /\ role = "server"
  /\ hs = "new"
  /\ qp_state = "Reset"
  /\ is_connected_ = FALSE
  /\ dead = FALSE
  /\ poller = "none"
  /\ poller_stop_ = FALSE
  /\ prefilled = 0
  /\ next_wr_id_ = 0
  /\ wr_ctx_ = EmptyMap
  /\ rq = <<>>
  /\ sq = <<>>
  /\ cq = <<>>
  /\ app_pc = "idle"
  /\ app_wr = [wr_id |-> 0, kind |-> "none"]
  /\ msgs_in = 0
  /\ posts = 0
  /\ kind_of = EmptyMap
  /\ early = {}
  /\ delivered = <<>>
  /\ wr_log = <<>>
  /\ called = {}
  /\ events = <<>>
  /\ models_ = <<>>
  /\ plans_ = <<>>
  /\ next_timer_ = [timeout |-> NoTimeout, waiting |-> FALSE]
  /\ ready = <<>>
  /\ now = 0
  /\ mutex_ = "free"
  /\ is_executing_ = FALSE
  /\ pc = "idle"
  /\ plan = NoPlan
  /\ start_time = 0
  /\ executing = {}
  /\ accepted = 0
  /\ popLog = <<>>
  /\ execLog = <<>>
  /\ late = {}

BlockingPollerSpec == BlockingPollerInit /\ [][BlockingPollerNext]_vars

\* the poller thread and the joining thread keep running, and poll() comes
\* back when the channel is readable or its timeout has passed
BlockingPollerFairSpec ==
  /\ BlockingPollerSpec
  /\ WF_vars(PollReturns("ready"))
  /\ WF_vars(PollReturns("timeout"))
  /\ WF_vars(\E ok \in BOOLEAN : GetCqEvent(ok))
  /\ WF_vars(\E ok \in BOOLEAN : ReqNotifyCq(ok))
  /\ WF_vars(PollCq)
  /\ WF_vars(JoinThread)

(* ---------------------------------------------------------------------- *)
(* Properties of the follower                                              *)
(* ---------------------------------------------------------------------- *)
Range(q) == {q[i] : i \in 1 .. Len(q)}

ModelInstalled(k) == Len(models_) > k /\ models_[k + 1] # 0

\* nothing is left that would make the follower act without a new call
Quiescent ==
  /\ pc = "idle"
  /\ mutex_ = "free"
  /\ ready = <<>>
  /\ ~next_timer_.waiting

\* C1: at most one plan is inside ExecuteBatchPlan at any moment.
C1_NoOverlap == Cardinality(executing) <= 1

\* a plan is executing while the timer of another pending plan has fired
C1_Witness ==
  /\ pc = "execute"
  /\ executing = {plan.plan_id}
  /\ plans_ # <<>>
  /\ "kOk" \in Range(ready)

\* C2: every accepted plan whose model is installed is eventually executed;
\* so when the follower has come to rest, no such plan is still in the heap.
C2_EveryPlanExecuted ==
  Quiescent =>
    \A i \in 1 .. Len(plans_) : ~ModelInstalled(plans_[i].model_index)

C4_ExecOrderAllAccepted ==
  \A j \in 1 .. Len(execLog) :
    /\ \A i \in 1 .. Len(plans_) : plans_[i].exec_time_ns >= execLog[j][2]
    /\ \A k \in (j + 1) .. Len(execLog) : execLog[k][2] >= execLog[j][2]

\* C4 amended: of the plans that are in the heap together, the one with the
\* smaller exec_time_ns is popped first, whatever the insertion order: a pop
\* leaves no plan in the heap with a smaller exec_time_ns than the popped one.
C4_PendingOrder ==
  [][(pc = "pop" /\ pc' = "lookup") =>
       \A i \in 1 .. Len(plans_') :
         plans_'[i].exec_time_ns >= plan'.exec_time_ns]_fvars

\* a plan has been popped, and is executing, before a pending plan that was
\* inserted earlier with a later deadline
C4_Witness ==
  /\ pc = "execute"
  /\ \E i \in 1 .. Len(plans_) :
       /\ plans_[i].plan_id < plan.plan_id
       /\ plans_[i].exec_time_ns > plan.exec_time_ns

\* C5: a popped plan is never popped or executed again and never re-enters
\* the heap.
C5_ConsumedOnce ==
  /\ \A i, j \in 1 .. Len(popLog) : i # j => popLog[i] # popLog[j]
  /\ \A i, j \in 1 .. Len(execLog) : i # j => execLog[i][1] # execLog[j][1]
  /\ \A i \in 1 .. Len(plans_) : plans_[i].plan_id \notin Range(popLog)
  /\ \A j \in 1 .. Len(execLog) : execLog[j][1] \in Range(popLog)

\* two plans have been popped and executed and a third is still pending
C5_Witness ==
  /\ Len(execLog) >= 2
  /\ plans_ # <<>>

\* C6 as stated: a plan whose deadline passed while the previous plan was
\* still executing is not executed, the process aborts with PlanOverlap.
C6_AbortsOnOverrun ==
  \A j \in 1 .. Len(execLog) : execLog[j][1] \notin late

\* C6 amended: the process never aborts with PlanOverlap; whenever OnTimer
\* reaches the test-and-set, is_executing_ is clear.
C6_GuardNeverTrips ==
  /\ pc # "PlanOverlap"
  /\ pc = "lookup" => ~is_executing_

\* the second plan executes although the first execute overran its deadline
C6_Witness ==
  /\ pc = "execute"
  /\ plan.plan_id \in late
  /\ Len(execLog) = 2
  /\ execLog[1][2] < execLog[2][2]

\* the step of OnTimer that finds no model for the popped plan and returns
DiscardStep == pc = "lookup" /\ pc' = "idle"

\* the timer will call OnTimer for the top of heap h: a wait for its deadline
\* is pending, or a kOk callback is already queued
TimerCovers(h, timer, callbacks) ==
  \/ timer.waiting /\ timer.timeout = h[1].exec_time_ns
  \/ "kOk" \in Range(callbacks)

\* C26: a popped plan without an installed model is dropped without execute
\* and without touching is_executing_, and the step leaves the timer armed
\* for the new heap top, so that the remaining plans still get their OnTimer.
C26_DiscardRearms ==
  [][DiscardStep =>
       /\ is_executing_' = is_executing_
       /\ executing' = executing
       /\ execLog' = execLog
       /\ \A i \in 1 .. Len(plans_') : plans_'[i].plan_id # plan.plan_id
       /\ plans_' # <<>> => TimerCovers(plans_', next_timer_', ready')]_fvars

\* OnTimer is called with an error code other than kOk
AbsorbStep ==
  /\ pc = "idle"
  /\ ready # <<>>
  /\ Head(ready) # "kOk"
  /\ ready' = Tail(ready)

\* C27: an OnTimer call with an error other than kOk changes nothing: the
\* heap, the model table, is_executing_ and the armed timer stay as they are,
\* no plan is popped and no execute is called.
C27_ErrorAbsorbed ==
  [][AbsorbStep =>
       UNCHANGED <<plans_, models_, is_executing_, next_timer_, pc, plan,
                   executing, execLog, popLog>>]_fvars

\* two plans are pending, the later one re-armed the timer for its earlier
\* deadline, and the kCancelled callback of the first wait has been taken
\* from the loop without a pop
C27_Witness ==
  /\ Len(plans_) = 2
  /\ plans_[1].plan_id = 2
  /\ plans_[1].exec_time_ns < plans_[2].exec_time_ns
  /\ ready = <<>>
  /\ popLog = <<>>
  /\ pc = "idle"
  /\ mutex_ = "free"
  /\ next_timer_.waiting

\* C28: AddModel(m) installs m only into an empty slot and is fatal on an
\* occupied one; RemoveModel(m) clears the slot only when it holds m and is
\* fatal when the slot is out of range, empty or holds another model.
C28_SlotIntegrity ==
  [][\A m \in ModelIds :
       LET k == ModelIndexOf(m) IN
       /\ AddModel(m) =>
             IF ModelInstalled(k)
             THEN pc' = "CheckFailed"
             ELSE models_'[k + 1] = m /\ pc' = pc
       /\ RemoveModel(m) =>
             IF Len(models_) > k /\ models_[k + 1] = m
             THEN models_'[k + 1] = 0 /\ pc' = pc
             ELSE pc' = "CheckFailed" /\ models_' = models_]_fvars

\* a step of the follower thread that reads or writes plans_ or next_timer_
FollowerAccess == pc \in {"pop", "lookup", "finish"} /\ pc' # pc

\* C29: the follower thread reads and writes plans_ and next_timer_ only
\* with the mutex; so never while a thread inside AddBatchPlan holds it.
C29_AccessUnderMutex == [][FollowerAccess => mutex_ = "free"]_fvars

\* C30: when the follower is outside OnTimer, no AddBatchPlan is under way
\* and the heap is non-empty, a wait for the deadline of the heap top is
\* pending (or its callback is already queued).
C30_TimerArmedForTop ==
  (pc = "idle" /\ mutex_ = "free" /\ plans_ # <<>>) =>
    TimerCovers(plans_, next_timer_, ready)

(* ---------------------------------------------------------------------- *)
(* Properties of the connection                                            *)
(* ---------------------------------------------------------------------- *)
\* the work requests that are posted, or about to be, and whose completion
\* the poller has not handled yet
InFlight ==
  Range(rq) \cup {sq[i].wr_id : i \in 1 .. Len(sq)}
            \cup {cq[i].wr_id : i \in 1 .. Len(cq)}
            \cup (IF app_pc = "post" THEN {app_wr.wr_id} ELSE {})

\* number of handler callbacks that were given the buffer of wr_id
TimesDelivered(id) ==
  Cardinality({i \in 1 .. Len(delivered) : delivered[i][1] = id})

\* the callback the interface names for each kind of request
ExpectedCallback(kind) ==
  CASE kind = "recv" -> "OnRecv"
    [] kind = "send" -> "OnSent"
    [] kind = "read" -> "OnRdmaReadComplete"

\* receive completions the poller has not handled yet
RecvPending == Cardinality({i \in 1 .. Len(cq) : cq[i].opcode = "RECV"})

\* C7: the table holds exactly the wr_ids in flight; a wr_id whose completion
\* has been handled is no longer in it.
C7_TableTracksInFlight ==
  ~dead => DOMAIN wr_ctx_ = InFlight

\* C8 as stated: every posted wr_id is delivered to exactly one callback; so
\* once the connection is gone, none has been left without its callback.
C8_EveryPostedDelivered ==
  hs = "destroyed" => \A id \in DOMAIN kind_of : TimesDelivered(id) = 1

\* C8 amended: no wr_id is delivered to two callbacks, a callback is the one
\* of the request's kind, and every wr_id whose (successful) completion the
\* poller has handled has been delivered to exactly one callback.
C8_HandledDeliveredOnce ==
  /\ \A id \in DOMAIN kind_of : TimesDelivered(id) <= 1
  /\ \A i \in 1 .. Len(delivered) :
       /\ delivered[i][1] \in DOMAIN kind_of
       /\ delivered[i][2] = ExpectedCallback(kind_of[delivered[i][1]])
  /\ ~dead => \A id \in DOMAIN kind_of \ InFlight : TimesDelivered(id) = 1

\* a receive, a send and a read have each been delivered to their callback
\* while other receives are still outstanding
C8_Witness ==
  /\ {delivered[i][2] : i \in 1 .. Len(delivered)} =
       {"OnRecv", "OnSent", "OnRdmaReadComplete"}
  /\ rq # <<>>
  /\ ~dead

\* C9 as stated: while connected, exactly kRecvBacklog receives are posted.
C9_BacklogAlways ==
  is_connected_ => Len(rq) = kRecvBacklog

\* C9 amended: while connected, the posted receives and the receive
\* completions not handled yet together number kRecvBacklog.
C9_BacklogWithPending ==
  (is_connected_ /\ ~dead) => Len(rq) + RecvPending = kRecvBacklog

\* connected, one completed receive already replaced, another consumed by
\* the NIC and not handled yet
C9_Witness ==
  /\ is_connected_
  /\ ~dead
  /\ Len(rq) < kRecvBacklog
  /\ \E i \in 1 .. Len(delivered) : delivered[i][2] = "OnRecv"

\* C10: no work request is posted before the QP has reached RTS.
C10_NoPostBeforeRTS == early = {}

\* C11: the wr_ids handed out on the connection are pairwise distinct and
\* strictly increasing in the order they were handed out, whichever thread
\* (poller in PostReceive, application in AsyncSend / AsyncRead) took them.
C11_WrIdsIncreasing ==
  \A i, j \in 1 .. Len(wr_log) : i < j => wr_log[i] < wr_log[j]

\* the application thread is between its fetch_add and its ibv_post_send
\* while the poller has taken the next wr_id for a replacement receive
C11_Witness ==
  /\ app_pc = "post"
  /\ Len(wr_log) > kRecvBacklog + 1
  /\ wr_log[Len(wr_log) - 1] = app_wr.wr_id
  /\ kind_of[wr_log[Len(wr_log)]] = "recv"

\* the handshake has ended in an error: a failed TCP read, an unexpected
\* message type or a failed queue-pair transition
HandshakeFailed == hs \in {"failed", "stalled"}

\* C12: a connection whose handshake has failed is never connected and its
\* handler has been told through OnError.
C12_HandshakeErrorSurfaced ==
  HandshakeFailed => (~is_connected_ /\ "OnError" \in called)

\* C13: once the handshake is complete, the handler has received
\* OnConnected and, on the client, OnRemoteMemoryRegionReceived.
C13_HappyPathCallbacks ==
  hs = "done" =>
    /\ "OnConnected" \in called
    /\ role = "client" => "OnRemoteMemoryRegionReceived" \in called

\* C18: when the poller takes a completion whose status is not success, the
\* process dies in that step, without a handler callback, without a
\* replacement receive and without a new wr_id; from then on no completion is
\* taken from the CQ and no callback is made.
C18_FailedCompletionFatal ==
  [][/\ (cq # <<>> /\ cq' = Tail(cq) /\ Head(cq).status # "success") =>
          /\ dead'
          /\ delivered' = delivered
          /\ rq' = rq
          /\ next_wr_id_' = next_wr_id_
          /\ wr_ctx_' = wr_ctx_
     /\ dead => (cq' = cq /\ delivered' = delivered /\ rq' = rq)]_cvars

\* a connected connection, its QP still in RTS, has died on a failed
\* completion after an earlier one was delivered, another one still queued
C18_Witness ==
  /\ dead
  /\ hs = "done"
  /\ qp_state = "RTS"
  /\ app_pc = "idle"
  /\ delivered # <<>>
  /\ cq # <<>>

\* C31: destroying a Connection is safe in every lifecycle state: the
\* shutdown that has set poller_stop_ never ends the process inside the join,
\* also when the poller thread was never started.
C31_DestroySafe ==
  (hs = "joining" /\ poller_stop_) => ~dead

\* C20: every work request that is posted, or about to be, and every
\* completion waiting in the CQ has its wr_id in wr_ctx_, so the lookup in
\* HandleWorkCompletion always finds the context.
C20_CompletionFindsContext ==
  InFlight \subseteq DOMAIN wr_ctx_

\* the poller has found the context of a completed send and a receive
\* completion is waiting, while the application thread has inserted the
\* context of its next request and not posted it yet
C20_Witness ==
  /\ ~dead
  /\ app_pc = "post"
  /\ cq # <<>>
  /\ \E i \in 1 .. Len(delivered) : delivered[i][2] = "OnSent"

(* ---------------------------------------------------------------------- *)
(* Properties of the dispatch ingress                                      *)
(* ---------------------------------------------------------------------- *)
\* EnqueueQuery returned for this Dispatch, with a status that is not OK
EnqueueFailed(e) == e.status \notin {"CTRL_OK", "none"}

\* C14: a DispatchReply is sent for a Dispatch if and only if EnqueueQuery
\* returned a status that is not OK for it; the reply carries that status.
C14_ReplyIffEnqueueFailed ==
  \A i \in 1 .. Len(handled) :
    /\ (handled[i].reply # NoReply) <=> EnqueueFailed(handled[i])
    /\ handled[i].reply # NoReply => handled[i].reply.status = handled[i].status

\* one Dispatch was enqueued with CTRL_OK and left unanswered, another one
\* failed and was answered
C14_Witness ==
  /\ \E i \in 1 .. Len(handled) :
       handled[i].status = "CTRL_OK" /\ handled[i].reply = NoReply
  /\ \E i \in 1 .. Len(handled) :
       handled[i].status = "CTRL_NOT_OK" /\ handled[i].reply # NoReply

\* C15: a Dispatch whose model_index has no registered session is answered
\* by a DispatchReply with a status that is not OK, echoing query_id and
\* clock, and the ingress has not died on it.
C15_UnknownIndexReplied ==
  \A i \in 1 .. Len(handled) :
    ~handled[i].known =>
      /\ handled[i].status # "none"
      /\ handled[i].reply # NoReply
      /\ handled[i].reply.status # "CTRL_OK"
      /\ handled[i].reply.query_list[1].query_id = handled[i].query_id
      /\ handled[i].reply.query_list[1].clock = handled[i].clock

\* C16: a DispatchReply that is sent carries the status EnqueueQuery
\* returned, the model_index of the request and exactly one query_list entry
\* with the request's query_id and the two timestamps stamped for it.
C16_ReplyEchoesRequest ==
  \A i \in 1 .. Len(handled) :
    handled[i].reply # NoReply =>
      /\ handled[i].reply.status = handled[i].status
      /\ handled[i].reply.model_index = handled[i].model_index
      /\ Len(handled[i].reply.query_list) = 1
      /\ handled[i].reply.query_list[1].query_id = handled[i].query_id
      /\ handled[i].reply.query_list[1].clock = handled[i].clock

\* C17: every Dispatch handled has been given a global_id, also when its
\* enqueue failed or never returned, and the global_ids of successively
\* handled Dispatches are strictly increasing.
C17_GlobalIdsIncreasing ==
  /\ \A i \in 1 .. Len(handled) : handled[i].global_id > 0
  /\ \A i, j \in 1 .. Len(handled) :
       i < j => handled[i].global_id < handled[j].global_id

\* two Dispatches handled, the enqueue of the first one failed, and another
\* worker has taken an id from the issuer in between
C17_Witness ==
  /\ Len(handled) = 2
  /\ handled[1].status = "CTRL_NOT_OK"
  /\ handled[2].global_id > handled[1].global_id + 1

\* the poller has called handler_->OnRecv in this step
OnRecvInvoked ==
  /\ Len(delivered') = Len(delivered) + 1
  /\ delivered'[Len(delivered')][2] = "OnRecv"

\* C21 as stated: at every OnRecv invocation kRecvBacklog receives are
\* outstanding again.
C21_BacklogAtOnRecv ==
  [][OnRecvInvoked => Len(rq') = kRecvBacklog]_cvars

\* C21 amended: at every OnRecv invocation the replacement receive has been
\* posted, as the newest receive of the queue pair, and the outstanding
\* receives together with the receive completions not handled yet number
\* what the prefill has posted so far, kRecvBacklog once connected.
C21_RepostedAtOnRecv ==
  [][OnRecvInvoked =>
       /\ rq' # <<>>
       /\ rq'[Len(rq')] = next_wr_id_
       /\ rq'[Len(rq')] \notin Range(rq)
       /\ Len(rq') + RecvPending' = prefilled'
       /\ is_connected_' => prefilled' = kRecvBacklog]_cvars

\* OnRecv has run for one message while the completion of the next message
\* is waiting in the CQ, so fewer than kRecvBacklog receives are outstanding
C21_Witness ==
  /\ ~dead
  /\ is_connected_
  /\ delivered # <<>>
  /\ delivered[Len(delivered)][2] = "OnRecv"
  /\ RecvPending >= 1
  /\ rq # <<>>
  /\ rq[Len(rq)] = next_wr_id_ - 1

\* the transitions of the queue pair the handshake makes, and the fault
QpTransitions ==
  {<<"Reset", "Init">>, <<"Init", "RTR">>, <<"RTR", "RTS">>, <<"RTS", "Error">>}

\* C22: is_connected_ is true only when the poller thread has been started,
\* the prefill has posted kRecvBacklog receives and the QP has reached RTS;
\* the QP changes state only along Reset, Init, RTR, RTS; the poller is
\* started only when the queried state is RTS, and a MarkConnected that
\* finds another state ends the process with is_connected_ still false.
C22_ConnectedAfterSetup ==
  /\ [](is_connected_ =>
         /\ poller # "none"
         /\ prefilled = kRecvBacklog
         /\ Cardinality({id \in DOMAIN kind_of : kind_of[id] = "recv"})
              >= kRecvBacklog
         /\ qp_state \in {"RTS", "Error"})
  /\ [][/\ qp_state' # qp_state => <<qp_state, qp_state'>> \in QpTransitions
        /\ (poller = "none" /\ poller' # "none") => qp_state = "RTS"
        /\ (MarkConnectedBegin /\ qp_state # "RTS") =>
             (dead' /\ ~is_connected_' /\ poller' = "none")]_cvars

\* the QP failed after the transition to RTS and MarkConnected has ended the
\* process without starting the poller
C22_Witness ==
  /\ dead
  /\ hs = "mark"
  /\ qp_state = "Error"
  /\ poller = "none"
  /\ ~is_connected_
  /\ posts = 0

\* position of the first occurrence of a handshake step, 0 when absent
FirstAt(e) ==
  IF e \in Range(events)
  THEN CHOOSE i \in 1 .. Len(events) :
         events[i] = e /\ \A j \in 1 .. (i - 1) : events[j] # e
  ELSE 0

\* C23: the first handshake step of either side is sending ConnInfo; the
\* server sends its MemoryRegion message only after OnConnected and never
\* waits for one; the client calls OnConnected only after it has received
\* the peer's MemoryRegion message and never sends one; a completed
\* handshake has made these steps.
C23_HandshakeOrder ==
  /\ events # <<>> => events[1] = "SendConnInfo"
  /\ role = "server" =>
       /\ "RecvMemoryRegion" \notin Range(events)
       /\ "SendMemoryRegion" \in Range(events) =>
            (FirstAt("OnConnected") > 0
               /\ FirstAt("OnConnected") < FirstAt("SendMemoryRegion"))
       /\ hs = "done" => "SendMemoryRegion" \in Range(events)
  /\ role = "client" =>
       /\ "SendMemoryRegion" \notin Range(events)
       /\ "OnConnected" \in Range(events) =>
            (FirstAt("RecvMemoryRegion") > 0
               /\ FirstAt("RecvMemoryRegion") < FirstAt("OnConnected"))
  /\ hs = "done" => "OnConnected" \in Range(events)

\* a server has completed its handshake and sent its MemoryRegion message
C23_Witness ==
  /\ role = "server"
  /\ hs = "done"
  /\ events # <<>>
  /\ events[Len(events)] = "SendMemoryRegion"

\* the application has called AsyncSend in this step: a call was counted
\* and it was not an AsyncRead, which always goes on to post a read
AsyncSendCalled ==
  /\ posts' = posts + 1
  /\ ~(app_pc' = "post" /\ app_wr'.kind = "read")

\* C25: an AsyncSend called while is_connected_ is false ends the process
\* and takes no wr_id, inserts no context and posts nothing; no wr_id was
\* ever given to a SEND while the connection was not connected.
C25_SendNotConnectedFatal ==
  /\ [](\A id \in DOMAIN kind_of : kind_of[id] = "send" => is_connected_)
  /\ [][(AsyncSendCalled /\ ~is_connected_) =>
          /\ dead'
          /\ next_wr_id_' = next_wr_id_
          /\ wr_ctx_' = wr_ctx_
          /\ wr_log' = wr_log
          /\ sq' = sq
          /\ app_pc' = "idle"]_cvars

\* AsyncSend was called on a connection still waiting for the peer's
\* ConnInfo: the process is dead, no wr_id taken, the table empty
C25_Witness ==
  /\ dead
  /\ hs = "wait_conninfo"
  /\ ~is_connected_
  /\ posts = 1
  /\ next_wr_id_ = 0
  /\ wr_ctx_ = EmptyMap
  /\ sq = <<>>

(* ---------------------------------------------------------------------- *)
(* Properties of the blocking poller                                       *)
(* ---------------------------------------------------------------------- *)
\* a completion is on the CQ, the poller waits in poll(), no event is on the
\* channel and no notification is requested: nothing will wake the poller
\* for this completion or for any later one
Stranded ==
  /\ bpc = "poll"
  /\ ~stop_requested
  /\ cq_depth > 0
  /\ comp_channel_ = 0
  /\ ~notify_armed

\* C24: while the poller runs, no completion is left stranded on the CQ,
\* also after a failed ibv_get_cq_event or ibv_req_notify_cq.
C24_NoCompletionStranded == ~Stranded

\* C19: once poller_stop_ is set, the blocking poller leaves its loop, with
\* or without a completion arriving, and the join returns (unless poll()
\* itself fails, on which the process dies).
C19_ShutdownTerminates ==
  stop_requested ~> (bpc \in {"joined", "failed"})

\* the join has returned although no completion ever arrived and poll() was
\* never woken: the poller left through the timeout of poll()
C19_Witness ==
  /\ bpc = "joined"
  /\ arrived = 0
  /\ wakeups = 0

====
